---- MODULE Spec2Model ----
(***************************************************************************)
(* Verification model of reinderien/notto: the courier path optimiser.     *)
(*                                                                         *)
(* Costs (cost_t, a double in the source) are fixed-point integers in      *)
(* ticks of 1/(Fine*speed) second.  A Euclidean distance is the floor of   *)
(* the square root taken to one decimal digit more than a result is        *)
(* emitted with, so a travel time is exact up to that floor; delays and    *)
(* penalties are whole seconds and therefore exact.                        *)
(***************************************************************************)
EXTENDS Integers, Sequences, FiniteSets

VARIABLES
    waypoints,        \* the waypoints of the case being solved, in input order
    \* -- heap solver (solve over std::vector used as a max-heap)
    i,                \* waypoints consumed so far
    total_penalty,
    opt_heap,
    cost_acceptable,
    cost_min_best,
    pc,               \* "loop" | "done" | "aborted"
    result,           \* the value solve returned
    chosen,           \* history: the stops of the path whose cost was returned
    pruned,           \* history: candidates removed by prune in this case
    dropped,          \* history: candidates discarded without insertion
    \* -- quadratic solver (Waypoint::set_best_cost over the whole vector)
    best_cost,        \* best_cost of every element of the vector
    quad_visited,     \* position of the outer loop in the vector, 0 past the front
    quad_pc,          \* "idle" | "loop" | "done"
    quad_result,
    \* -- multiset solvers: positive and negative penalty accrual
    pos_set,          \* opt_waypoints_on, in the multiset's order
    pos_visited,      \* position of the loop in the vector
    pos_pc,           \* "idle" | "loop" | "done"
    pos_result,
    neg_set,          \* opt_waypoints, in the multiset's order
    neg_total_penalty,
    neg_visited,
    neg_pc,
    neg_result,
    \* -- the build, and process_streams over a whole input
    ndebug,           \* TRUE when the build defines NDEBUG: assert expands to nothing
    input,            \* the lines of the input, first line first
    pos,              \* lines the forward reader has consumed
    out,              \* the results written to the output, in the order written
    stream_pc,        \* "idle" | "size" | "solve" | "end"
    \* -- the solver that reads the input from its end backwards
    rev_pos,          \* lines the backward reader has not consumed yet
    rev_set,          \* Solver::opt_waypoints, in the multimap's order
    rev_total_penalty,
    rev_times,        \* results in the order solved
    rev_out,          \* the results written to the output
    rev_pc            \* "idle" | "open" | "case" | "write" | "end" | "aborted"

heap_vars == <<i, total_penalty, opt_heap, cost_acceptable, cost_min_best,
               pc, result, chosen, pruned, dropped>>
quad_vars == <<best_cost, quad_visited, quad_pc, quad_result>>
accrual_vars == <<pos_set, pos_visited, pos_pc, pos_result,
                  neg_set, neg_total_penalty, neg_visited, neg_pc, neg_result>>
stream_vars == <<ndebug, input, pos, out, stream_pc>>
rev_vars == <<rev_pos, rev_set, rev_total_penalty, rev_times, rev_out, rev_pc>>
vars == <<waypoints, heap_vars, quad_vars, accrual_vars, stream_vars, rev_vars>>

\* ------------------------------------------------------------------ bounds

\* Longest case (number of waypoints between the two corners) explored.
MaxN == 3

\* Largest stale value, in seconds, that the storage of a never-assigned
\* best_cost is explored to hold.
MaxStale == 1

\* Coordinates and penalties the explored cases draw their waypoints from.
Xs == {40, 50}
Ys == {10, 90}
Penalties == {20, 80}

\* ------------------------------------------------- constants of the program

delay == 10
speed == 2
edge == 100
\* digits after the decimal point of an emitted result (std::setprecision)
precision == 3
\* stand-in for std::numeric_limits<cost_t>::max()
cost_t_max == 1000000000
\* number of values of coord_t and penalty_t (uint8_t)
coord_t_range == 256

RECURSIVE Pow10(_)
Pow10(k) == IF k = 0 THEN 1 ELSE 10 * Pow10(k - 1)

Milli == Pow10(precision)
\* distances are kept to one more decimal digit than a result is emitted with
Fine == Pow10(precision + 1)
\* ticks per second
Ticks == Fine * speed
Seconds(n) == n * Ticks

\* out << std::fixed << std::setprecision(3) << time: the cost rounded to
\* `precision` decimals, as an integer number of thousandths
Format(cost) == (cost + (Ticks \div Milli) \div 2) \div (Ticks \div Milli)

\* ---------------------------------------------------------------- geometry

\* largest r in lo..hi with r*r <= n
RECURSIVE ISqrtSearch(_, _, _)
ISqrtSearch(n, lo, hi) ==
    IF lo >= hi THEN lo
    ELSE LET mid == (lo + hi + 1) \div 2
         IN IF mid * mid <= n THEN ISqrtSearch(n, mid, hi)
                              ELSE ISqrtSearch(n, lo, mid - 1)

\* next decimal digit of a square root, given the root r so far and the
\* remainder rem = (radicand so far) - r*r
SqrtDigit(r, rem) ==
    CHOOSE d \in 0..9 :
        /\ (20 * r + d) * d <= 100 * rem
        /\ (d = 9 \/ (20 * r + d + 1) * (d + 1) > 100 * rem)

RECURSIVE SqrtRefine(_, _, _)
SqrtRefine(r, rem, k) ==
    IF k = 0 THEN r
    ELSE LET d == SqrtDigit(r, rem)
         IN SqrtRefine(10 * r + d, 100 * rem - (20 * r + d) * d, k - 1)

\* std::sqrt of an integer radicand, in units of 1/Fine, rounded down
SqrtFine(n) ==
    LET r == ISqrtSearch(n, 0, 4 * edge)
    IN SqrtRefine(r, n - r * r, precision + 1)

\* a time_to whose square root is cut to whole metres
time_to_whole(dx, dy) ==
    (ISqrtSearch(dx * dx + dy * dy, 0, 4 * edge) * Ticks) \div speed

\* ::time_to(dx, dy): sqrt(dx*dx + dy*dy) / speed, in ticks
time_to(dx, dy) == (SqrtFine(dx * dx + dy * dy) * (Ticks \div Fine)) \div speed

\* the assertions of ::time_to: both differences within the square, and the
\* time within the theoretical bounds time_min = dist_min / speed and
\* time_max = dist_max / speed, with dist_max = edge * sqrt2
dist_min_heap == 0
time_to_sane(dx, dy) ==
    /\ -edge <= dx /\ dx <= edge
    /\ -edge <= dy /\ dy <= edge
    /\ (dist_min_heap * Fine * (Ticks \div Fine)) \div speed <= time_to(dx, dy)
    /\ time_to(dx, dy) <= (SqrtFine(2 * edge * edge) * (Ticks \div Fine)) \div speed

Min2(a, b) == IF b < a THEN b ELSE a
Max2(a, b) == IF a < b THEN b ELSE a

\* coord_t is uint8_t: the int minimum or maximum is converted on return
coord_min(x) == Min2(edge - x, x) % coord_t_range

coord_max_swapped(x) == Min2(edge - x, x) % coord_t_range
coord_max(x) == Max2(edge - x, x) % coord_t_range

Waypoint(x, y, penalty) == [x |-> x, y |-> y, penalty |-> penalty]

Waypoint_time_to(w, other) == time_to(other.x - w.x, other.y - w.y)
time_min(w) == time_to(coord_min(w.x), coord_min(w.y))
time_max(w) == time_to(coord_max(w.x), coord_max(w.y))
is_sane(w) == w.x >= 0 /\ w.x <= edge /\ w.y >= 0 /\ w.y <= edge

\* the two corner sentinels
head_waypoint == Waypoint(0, 0, 0)
tail_waypoint == Waypoint(edge, edge, 0)

\* process_streams: the vector holds (0,0), the case's waypoints, (100,100)
Vec(ws) == <<head_waypoint>> \o ws \o <<tail_waypoint>>

\* the waypoint of the specification's concrete scenario
ScenarioWaypoint == Waypoint(50, 50, 0)

\* a waypoint whose penalty outweighs every hop through it
HeavyWaypoint == Waypoint(50, 50, 100)

InputWaypoints ==
    {Waypoint(x, y, p) : x \in Xs, y \in Ys, p \in Penalties}
        \cup {ScenarioWaypoint, HeavyWaypoint}

\* every case explored: 1..MaxN waypoints (a case size of 0 ends the stream)
Cases == UNION {[1..n -> InputWaypoints] : n \in 1..MaxN}

\* in-bounds points the hop bounds are compared against
ProbeCoords == Xs \cup Ys \cup {0, edge \div 2, edge}
ProbePoints == {Waypoint(x, y, 0) : x \in ProbeCoords, y \in ProbeCoords}

\* ------------------------------------------------------------- heap solver

\* OptimisedWaypoint(waypoint, cost_best).  `stops` is history: the input
\* positions at which the path of cost cost_best stops, this waypoint last.
cost_invariant_of(waypoint, cost_best) ==
    cost_best - Seconds(waypoint.penalty) + Seconds(delay)

OptimisedWaypoint(waypoint, cost_best, stops) ==
    LET cost_invariant == cost_invariant_of(waypoint, cost_best)
    IN [waypoint |-> waypoint,
        cost_invariant |-> cost_invariant,
        cost_min |-> time_min(waypoint) + cost_invariant,
        stops |-> stops]

cost_to(ow, visited) == Waypoint_time_to(visited, ow.waypoint) + ow.cost_invariant
cost_max(ow) == time_max(ow.waypoint) + ow.cost_invariant
\* OptimisedWaypoint::operator<
Less(a, b) == a.cost_min < b.cost_min

Swap(h, a, b) == [h EXCEPT ![a] = h[b], ![b] = h[a]]

RECURSIVE SiftUp(_, _)
SiftUp(h, k) ==
    IF k > 1 /\ Less(h[k \div 2], h[k])
    THEN SiftUp(Swap(h, k \div 2, k), k \div 2)
    ELSE h

RECURSIVE SiftDown(_, _, _)
SiftDown(h, k, n) ==
    LET l == 2 * k
        r == 2 * k + 1
        c == IF r <= n /\ Less(h[l], h[r]) THEN r ELSE l
    IN IF l <= n /\ Less(h[k], h[c])
       THEN SiftDown(Swap(h, k, c), c, n)
       ELSE h

\* a push_heap that leaves the inserted element where it is
push_heap_unsifted(h) == h

\* std::push_heap: the last element is the one being inserted
push_heap(h) == SiftUp(h, Len(h))
\* std::pop_heap: the greatest element goes last, the rest is a heap again
pop_heap(h) == SiftDown(Swap(h, 1, Len(h)), 1, Len(h) - 1)
pop_back(h) == SubSeq(h, 1, Len(h) - 1)

\* opt_heap.emplace_back(new_opt); std::push_heap(...)
emplace_lost(h, new_opt) == h
emplace_twice(h, new_opt) ==
    push_heap(Append(push_heap(Append(h, new_opt)), new_opt))
emplace(h, new_opt) == push_heap(Append(h, new_opt))

Range(s) == {s[k] : k \in DOMAIN s}

\* a prune that erases nothing
prune_none(h, to_exceed) == h

RECURSIVE prune(_, _)
prune(h, to_exceed) ==
    IF h # << >> /\ h[1].cost_min > to_exceed
    THEN prune(pop_back(pop_heap(h)), to_exceed)
    ELSE h

SetMin(S) == CHOOSE m \in S : \A o \in S : m <= o

get_best_cost(visited, h) ==
    SetMin({cost_t_max} \cup {cost_to(h[k], visited) : k \in DOMAIN h})

\* history: the first candidate, in heap order, that attains get_best_cost
best_from(visited, h) ==
    LET m == get_best_cost(visited, h)
    IN CHOOSE k \in DOMAIN h :
           /\ cost_to(h[k], visited) = m
           /\ \A j \in 1..(k - 1) : cost_to(h[j], visited) > m

\* the assertions met while get_best_cost computes cost_to for every candidate
get_best_cost_sane(visited, h) ==
    \A k \in DOMAIN h :
        time_to_sane(h[k].waypoint.x - visited.x, h[k].waypoint.y - visited.y)

\* the assertions met while the constructor of OptimisedWaypoint calls time_min
time_min_sane(w) == time_to_sane(coord_min(w.x), coord_min(w.y))

head == OptimisedWaypoint(head_waypoint, 0, << >>)

InitHeap ==
    /\ i = 0
    /\ total_penalty = 0
    /\ opt_heap = <<head>>
    /\ cost_acceptable = cost_t_max
    /\ cost_min_best = head.cost_min
    /\ pc = "loop"
    /\ result = 0
    /\ chosen = << >>
    /\ pruned = {}
    /\ dropped = {}

\* no input is being streamed: one case is solved on its own, by a build that
\* checks its assertions
StreamIdle ==
    /\ ndebug = FALSE
    /\ input = << >>
    /\ pos = 0
    /\ out = << >>
    /\ stream_pc = "idle"
    /\ rev_pos = 0
    /\ rev_set = << >>
    /\ rev_total_penalty = 0
    /\ rev_times = << >>
    /\ rev_out = << >>
    /\ rev_pc = "idle"

\* one iteration of the loop of solve.  get_best_cost asserts that some
\* candidate gave a cost; a failed assertion aborts the run.
\* if (cost_min_best >= new_opt.cost_min()): the new candidate has become
\* the lowest-minimum-cost waypoint
lowers_strictly(best, new_opt) == best > new_opt.cost_min
lowers_never(best, new_opt) == FALSE
lowers_cost_min_best(best, new_opt) == best >= new_opt.cost_min

Feed ==
    /\ pc = "loop"
    /\ i < Len(waypoints)
    /\ LET visited == waypoints[i + 1]
           cost_best == get_best_cost(visited, opt_heap)
       IN IF ~ndebug /\ (\/ ~is_sane(visited)
                         \/ ~get_best_cost_sane(visited, opt_heap)
                         \/ ~(cost_best < cost_t_max)
                         \/ ~time_min_sane(visited))
          THEN /\ pc' = "aborted"
               /\ UNCHANGED <<i, total_penalty, opt_heap, cost_acceptable,
                              cost_min_best, pruned, dropped>>
          ELSE LET from == opt_heap[best_from(visited, opt_heap)]
                   new_opt == OptimisedWaypoint(visited, cost_best,
                                                Append(from.stops, i + 1))
               IN /\ total_penalty' = total_penalty + visited.penalty
                  /\ IF cost_acceptable >= new_opt.cost_min
                     THEN IF lowers_cost_min_best(cost_min_best, new_opt)
                          THEN LET kept == prune(opt_heap, cost_max(new_opt))
                               IN /\ cost_min_best' = new_opt.cost_min
                                  /\ cost_acceptable' = cost_max(new_opt)
                                  /\ opt_heap' = emplace(kept, new_opt)
                                  /\ pruned' = pruned \cup (Range(opt_heap) \ Range(kept))
                                  /\ dropped' = dropped
                          ELSE /\ opt_heap' = emplace(opt_heap, new_opt)
                               /\ UNCHANGED <<cost_min_best, cost_acceptable,
                                              pruned, dropped>>
                     ELSE /\ dropped' = dropped \cup {new_opt}
                          /\ UNCHANGED <<cost_min_best, cost_acceptable,
                                         opt_heap, pruned>>
                  /\ i' = i + 1
                  /\ pc' = pc
    /\ pos' = pos + 1
    /\ UNCHANGED <<waypoints, result, chosen, quad_vars, accrual_vars,
                   ndebug, input, out, stream_pc, rev_vars>>

\* return cost_best + total_penalty
total_cost_uncompensated(cost_best, penalty_sum) == cost_best
total_cost(cost_best, penalty_sum) == cost_best + Seconds(penalty_sum)

\* the end of solve: the cost of the final corner plus the total penalty
Finish ==
    /\ pc = "loop"
    /\ i = Len(waypoints)
    /\ LET cost_best == get_best_cost(tail_waypoint, opt_heap)
       IN IF ~ndebug /\ (\/ ~get_best_cost_sane(tail_waypoint, opt_heap)
                         \/ ~(cost_best < cost_t_max))
          THEN /\ pc' = "aborted"
               /\ UNCHANGED <<result, chosen>>
          ELSE /\ result' = total_cost(cost_best, total_penalty)
               /\ chosen' = opt_heap[best_from(tail_waypoint, opt_heap)].stops
               /\ pc' = "done"
    /\ UNCHANGED <<waypoints, i, total_penalty, opt_heap, cost_acceptable,
                   cost_min_best, pruned, dropped, quad_vars, accrual_vars,
                   stream_vars, rev_vars>>

\* ------------------------------------- multiset solvers (fixed hop bounds)

dist_min == 1
\* dist_max = 100*M_SQRT2, in units of 1/Fine
dist_max_fine == SqrtFine(2 * 100 * 100)
fixed_time_min == (dist_min * Fine * (Ticks \div Fine)) \div speed
fixed_time_max == (dist_max_fine * (Ticks \div Fine)) \div speed

SetMax(S) == CHOOSE m \in S : \A o \in S : o <= m

\* std::multiset::emplace: after every element that is not greater;
\* keys[k] is what operator< compares of s[k], key what it compares of e
multiset_emplace(s, keys, e, key) ==
    LET p == Cardinality({k \in DOMAIN s : ~(key < keys[k])})
    IN SubSeq(s, 1, p) \o <<e>> \o SubSeq(s, p + 1, Len(s))

\* the loop of prune: erase the last element while its invariant cost
\* exceeds to_exceed
erase_last_while(s, keys, to_exceed) ==
    SubSeq(s, 1, SetMax({0} \cup {k \in DOMAIN s : ~(keys[k] > to_exceed)}))

\* positive accrual: OptimisedWaypoint holds best_cost and accrued_penalty
pos_invariant_cost(ow) == ow.accrued_penalty + ow.best_cost
pos_cost_for(vec, ow, v) ==
    Waypoint_time_to(vec[v], vec[ow.at]) + ow.best_cost
        + ow.accrued_penalty + Seconds(delay)

\* OptimisedWaypoint(copy, penalty_delta)
pos_accrue_none(ow, penalty_delta) == ow
pos_accrue(ow, penalty_delta) ==
    [ow EXCEPT !.accrued_penalty = ow.accrued_penalty + Seconds(penalty_delta)]

\* the keys of a set, in its order
pos_keys(s) == [k \in DOMAIN s |-> pos_invariant_cost(s[k])]

pos_emplace(s, e) == multiset_emplace(s, pos_keys(s), e, pos_invariant_cost(e))

pos_prune(s) ==
    erase_last_while(s, pos_keys(s),
                     pos_invariant_cost(s[1]) + fixed_time_max - fixed_time_min)

pos_get_best_cost(vec, v, s) ==
    SetMin({cost_t_max} \cup {pos_cost_for(vec, s[k], v) : k \in DOMAIN s})

\* every element of `on` re-emplaced into `off` with the visited penalty added
RECURSIVE pos_rebuild(_, _, _)
pos_rebuild(on, off, penalty) ==
    IF on = << >> THEN off
    ELSE pos_rebuild(Tail(on),
                     pos_emplace(off, pos_accrue(Head(on), penalty)),
                     penalty)

\* one iteration of the loop of the positive-accrual solve, before the front
PosStep ==
    /\ pos_pc = "loop"
    /\ pos_visited > 1
    /\ LET vec == Vec(waypoints)
           cost == pos_get_best_cost(vec, pos_visited, pos_set)
           on == pos_rebuild(pos_set, << >>, vec[pos_visited].penalty)
           new_opt == [at |-> pos_visited, best_cost |-> cost, accrued_penalty |-> 0]
       IN pos_set' = pos_prune(pos_emplace(on, new_opt))
    /\ pos_visited' = pos_visited - 1
    /\ UNCHANGED <<waypoints, stream_vars, rev_vars, heap_vars, quad_vars, pos_pc, pos_result,
                   neg_set, neg_total_penalty, neg_visited, neg_pc, neg_result>>

\* the iteration at the front of the vector, which returns
PosReturn ==
    /\ pos_pc = "loop"
    /\ pos_visited = 1
    /\ pos_result' = pos_get_best_cost(Vec(waypoints), pos_visited, pos_set)
    /\ pos_pc' = "done"
    /\ UNCHANGED <<waypoints, stream_vars, rev_vars, heap_vars, quad_vars, pos_set, pos_visited,
                   neg_set, neg_total_penalty, neg_visited, neg_pc, neg_result>>

\* negative accrual: accrued_penalty is the waypoint's own penalty, subtracted
neg_invariant_cost(ow) == ow.best_cost - ow.accrued_penalty
neg_cost_for(vec, ow, v) ==
    Waypoint_time_to(vec[v], vec[ow.at]) + ow.best_cost
        - ow.accrued_penalty + Seconds(delay)

neg_keys(s) == [k \in DOMAIN s |-> neg_invariant_cost(s[k])]

neg_emplace(s, e) == multiset_emplace(s, neg_keys(s), e, neg_invariant_cost(e))

\* a prune without the slack time_max - time_min
neg_prune_tight(s) == erase_last_while(s, neg_keys(s), neg_invariant_cost(s[1]))
\* a prune whose threshold lies below the lowest invariant cost
neg_prune_under(s) ==
    erase_last_while(s, neg_keys(s), neg_invariant_cost(s[1]) - fixed_time_max)

neg_prune(s) ==
    erase_last_while(s, neg_keys(s),
                     neg_invariant_cost(s[1]) + fixed_time_max - fixed_time_min)

neg_get_best_cost(vec, v, s) ==
    SetMin({cost_t_max} \cup {neg_cost_for(vec, s[k], v) : k \in DOMAIN s})

NegStep ==
    /\ neg_pc = "loop"
    /\ neg_visited > 1
    /\ LET vec == Vec(waypoints)
           cost == neg_get_best_cost(vec, neg_visited, neg_set)
           new_opt == [at |-> neg_visited, best_cost |-> cost,
                       accrued_penalty |-> Seconds(vec[neg_visited].penalty)]
       IN /\ neg_total_penalty' = neg_total_penalty + vec[neg_visited].penalty
          /\ neg_set' = neg_prune(neg_emplace(neg_set, new_opt))
    /\ neg_visited' = neg_visited - 1
    /\ UNCHANGED <<waypoints, stream_vars, rev_vars, heap_vars, quad_vars, neg_pc, neg_result,
                   pos_set, pos_visited, pos_pc, pos_result>>

NegReturn ==
    /\ neg_pc = "loop"
    /\ neg_visited = 1
    /\ LET vec == Vec(waypoints)
       IN /\ neg_total_penalty' = neg_total_penalty + vec[neg_visited].penalty
          /\ neg_result' = neg_get_best_cost(vec, neg_visited, neg_set)
                              + Seconds(neg_total_penalty')
    /\ neg_pc' = "done"
    /\ UNCHANGED <<waypoints, stream_vars, rev_vars, heap_vars, quad_vars, neg_set, neg_visited,
                   pos_set, pos_visited, pos_pc, pos_result>>

AccrualIdle ==
    /\ pos_set = << >>
    /\ pos_visited = 0
    /\ pos_pc = "idle"
    /\ pos_result = 0
    /\ neg_set = << >>
    /\ neg_total_penalty = 0
    /\ neg_visited = 0
    /\ neg_pc = "idle"
    /\ neg_result = 0

\* both solves start from the set that holds the last element of the vector
InitAccrual ==
    /\ waypoints \in Cases
    /\ InitHeap
    /\ StreamIdle
    /\ best_cost = << >>
    /\ quad_visited = 0
    /\ quad_pc = "idle"
    /\ quad_result = 0
    /\ pos_set = <<[at |-> Len(waypoints) + 2, best_cost |-> 0, accrued_penalty |-> 0]>>
    /\ pos_visited = Len(waypoints) + 1
    /\ pos_pc = "loop"
    /\ pos_result = 0
    /\ neg_set = <<[at |-> Len(waypoints) + 2, best_cost |-> 0, accrued_penalty |-> 0]>>
    /\ neg_total_penalty = 0
    /\ neg_visited = Len(waypoints) + 1
    /\ neg_pc = "loop"
    /\ neg_result = 0

NextAccrual == PosStep \/ PosReturn \/ NegStep \/ NegReturn

SpecAccrual == InitAccrual /\ [][NextAccrual]_vars

\* -------------------------------------------------------- quadratic solver

\* What a best_cost that was never assigned may hold.  The constructors leave
\* best_cost uninitialised and solve never assigns the last element's, which
\* set_best_cost reads: the value is whatever the vector's storage held.
Indeterminate == {Seconds(k) : k \in 0..MaxStale}

\* if (penalties > best_cost) break: the best cost is less than the current
\* penalty sum, no later skipto can be better
never_better_hasty(penalties, best) == penalties + penalties > best
never_better(penalties, best) == penalties > best

\* the inner loop of set_best_cost, from skipto on
RECURSIVE skip_loop(_, _, _, _, _, _)
skip_loop(vec, bc, v, skipto, best, penalties) ==
    IF skipto > Len(vec) THEN best
    ELSE LET time == Waypoint_time_to(vec[v], vec[skipto])
             cost == time + penalties + bc[skipto]
             best2 == IF best > cost THEN cost ELSE best
             penalties2 == penalties + Seconds(vec[skipto].penalty)
         IN IF never_better(penalties2, best2) THEN best2
            ELSE skip_loop(vec, bc, v, skipto + 1, best2, penalties2)

set_best_cost(vec, bc, v) == skip_loop(vec, bc, v, v + 1, cost_t_max, Seconds(delay))

\* the outer loop of the quadratic solve, from position v down to the front
RECURSIVE quad_pass(_, _, _)
quad_pass(vec, bc, v) ==
    IF v = 0 THEN bc
    ELSE quad_pass(vec, [bc EXCEPT ![v] = set_best_cost(vec, bc, v)], v - 1)

\* the quadratic solve on a case whose unassigned best_cost holds stale
solve_quadratic(ws, stale) ==
    quad_pass(Vec(ws), [k \in 1..(Len(ws) + 2) |-> stale], Len(ws) + 1)[1]

QuadIdle ==
    /\ best_cost = << >>
    /\ quad_visited = 0
    /\ quad_pc = "idle"
    /\ quad_result = 0

\* one iteration of the outer loop of the quadratic solve
QuadVisit ==
    /\ quad_pc = "loop"
    /\ quad_visited >= 1
    /\ best_cost' = [best_cost EXCEPT ![quad_visited] =
                         set_best_cost(Vec(waypoints), best_cost, quad_visited)]
    /\ quad_visited' = quad_visited - 1
    /\ UNCHANGED <<waypoints, stream_vars, rev_vars, heap_vars, accrual_vars, quad_pc, quad_result>>

QuadReturn ==
    /\ quad_pc = "loop"
    /\ quad_visited = 0
    /\ quad_result' = best_cost[1]
    /\ quad_pc' = "done"
    /\ UNCHANGED <<waypoints, stream_vars, rev_vars, heap_vars, accrual_vars, best_cost, quad_visited>>

InitQuad ==
    /\ waypoints \in Cases
    /\ InitHeap
    /\ StreamIdle
    /\ \E stale \in Indeterminate :
           best_cost = [k \in 1..(Len(waypoints) + 2) |-> stale]
    /\ quad_visited = Len(waypoints) + 1
    /\ quad_pc = "loop"
    /\ quad_result = 0
    /\ AccrualIdle

NextQuad == QuadVisit \/ QuadReturn

SpecQuad == InitQuad /\ [][NextQuad]_vars

\* ------------------------------------------------------- the heap solver's
\* specification

Init ==
    /\ waypoints \in Cases
    /\ InitHeap
    /\ StreamIdle
    /\ QuadIdle
    /\ AccrualIdle

Next == Feed \/ Finish

Spec == Init /\ [][Next]_vars

\* ---------------------------------------------- process_streams (forward)

\* Most cases in an explored input before its terminating line.
MaxCases == 2

\* a line of the input: a case size, or the x, y and penalty of a waypoint
SizeLine(n) == [size |-> n, w |-> head_waypoint]
WaypointLine(w) == [size |-> -1, w |-> w]
IsSizeLine(line) == line.size >= 0

\* the lines of one case: its size, then its waypoints
CaseLines(ws) == <<SizeLine(Len(ws))>> \o [k \in DOMAIN ws |-> WaypointLine(ws[k])]

\* a waypoint whose x is outside the square but fits coord_t
OutsideWaypoint == Waypoint(150, 50, 20)

\* the cases the explored inputs are made of: the scenario, a case that
\* prunes, a case with two identical waypoints, a case on the two corners,
\* a case whose second candidate ties the best cost_min, and a case with a
\* waypoint outside the square
StreamCases ==
    { <<ScenarioWaypoint>>,
      <<Waypoint(40, 10, 80), Waypoint(50, 90, 20)>>,
      <<HeavyWaypoint, Waypoint(40, 10, 80)>>,
      <<Waypoint(50, 50, 20), Waypoint(50, 50, 20)>>,
      <<Waypoint(0, 0, 20), Waypoint(100, 100, 20)>>,
      <<HeavyWaypoint, Waypoint(100, 100, 10)>>,
      <<OutsideWaypoint>> }

RECURSIVE Concat(_)
Concat(q) == IF q = << >> THEN << >> ELSE Head(q) \o Concat(Tail(q))

\* lines that follow the terminating line in some explored inputs
Trailing == {<< >>, CaseLines(<<Waypoint(40, 10, 80)>>)}

\* the explored inputs: up to MaxCases cases, the terminating case size 0,
\* and possibly more lines after it
Streams ==
    {Concat([k \in DOMAIN cs |-> CaseLines(cs[k])]) \o <<SizeLine(0)>> \o t :
        cs \in UNION {[1..n -> StreamCases] : n \in 0..MaxCases}, t \in Trailing}

\* the waypoints of the n lines that follow line `at`
LinesAfter(at, n) == [k \in 1..n |-> input[at + k].w]

\* int total_penalty = 0 on entry to solve
solve_total_penalty_kept(previous) == previous
solve_total_penalty(previous) == 0

\* reader.get_case_size(); a size of 0 ends the loop, any other enters solve,
\* whose locals are initialised before its loop
GetCaseSize ==
    /\ stream_pc = "size"
    /\ pos < Len(input)
    /\ LET n == input[pos + 1].size
       IN IF n = 0
          THEN /\ stream_pc' = "end"
               /\ UNCHANGED <<waypoints, heap_vars>>
          ELSE /\ stream_pc' = "solve"
               /\ waypoints' = LinesAfter(pos + 1, n)
               /\ i' = 0
               /\ total_penalty' = solve_total_penalty(total_penalty)
               /\ opt_heap' = <<head>>
               /\ cost_acceptable' = cost_t_max
               /\ cost_min_best' = head.cost_min
               /\ pc' = "loop"
               /\ pruned' = {}
               /\ dropped' = {}
               /\ UNCHANGED <<result, chosen>>
    /\ pos' = pos + 1
    /\ UNCHANGED <<ndebug, input, out, quad_vars, accrual_vars, rev_vars>>

\* out << time << '\n'.  `at` is history: the line the case's size was read from
Emit ==
    /\ stream_pc = "solve"
    /\ pc = "done"
    /\ out' = Append(out, [at |-> pos - Len(waypoints), time |-> Format(result)])
    /\ stream_pc' = "size"
    /\ UNCHANGED <<waypoints, heap_vars, ndebug, input, pos, quad_vars,
                   accrual_vars, rev_vars>>

\* the forward program has returned or aborted
ForwardOver ==
    \/ stream_pc = "end"
    \/ stream_pc = "solve" /\ pc = "aborted"

\* --------------------------- Solver and process_streams (backward reader)

\* coordinates are int in this program
rev_coord_min(x) == Max2(1, Min2(x, edge - x))
rev_coord_max(x) == Max2(x, edge - x)
rev_time_min(w) == time_to(rev_coord_min(w.x), rev_coord_min(w.y))
rev_time_max(w) == time_to(rev_coord_max(w.x), rev_coord_max(w.y))
rev_is_sane(w) == w.x >= 0 /\ w.x <= edge /\ w.y >= 0 /\ w.y <= edge

\* OptimisedWaypoint(waypoint, best_cost, penalty)
rev_OptimisedWaypoint(waypoint, cost_best, penalty) ==
    LET invariant_cost == cost_best - Seconds(penalty) + Seconds(delay)
    IN [waypoint |-> waypoint,
        invariant_cost |-> invariant_cost,
        cost_min |-> rev_time_min(waypoint) + invariant_cost]

rev_cost_from(ow, visited) ==
    Waypoint_time_to(visited, ow.waypoint) + ow.invariant_cost

\* the assertions of ::time_to and of cost_from: both differences within the
\* square, and the time within time_min = dist_min / speed and time_max
rev_cost_from_sane(ow, visited) ==
    LET dx == visited.x - ow.waypoint.x
        dy == visited.y - ow.waypoint.y
    IN /\ dx >= -edge /\ dx <= edge
       /\ dy >= -edge /\ dy <= edge
       /\ time_to(dx, dy) >= fixed_time_min
       /\ time_to(dx, dy) <= fixed_time_max

rev_cost_max(ow) == rev_time_max(ow.waypoint) + ow.invariant_cost

rev_keys(s) == [k \in DOMAIN s |-> s[k].cost_min]

\* into.emplace(cost_min, *this)
rev_emplace(s, e) == multiset_emplace(s, rev_keys(s), e, e.cost_min)

\* erase from upper_bound(cost_max of the first element) to the end
rev_prune(s) == erase_last_while(s, rev_keys(s), rev_cost_max(s[1]))

rev_get_best_cost(visited, s) ==
    SetMin({cost_t_max} \cup {rev_cost_from(s[k], visited) : k \in DOMAIN s})

\* the assertions get_best_cost meets
rev_get_best_cost_sane(visited, s) ==
    /\ \A k \in DOMAIN s :
          rev_is_sane(s[k].waypoint) /\ rev_cost_from_sane(s[k], visited)
    /\ rev_get_best_cost(visited, s) < cost_t_max

\* Solver(): the set holds the candidate of the final corner
rev_tail == rev_OptimisedWaypoint(tail_waypoint, 0, 0)
Solver(s) == <<rev_tail>>

\* for (time = times.crbegin(); time != times.crend(); time++) out << *time
Reverse(q) == [k \in DOMAIN q |-> q[Len(q) + 1 - k]]
times_forward(q) == q
times_reversed(q) == Reverse(q)

\* WaypointReader(body_str): the constructor consumes the last line and
\* asserts that it is a case end (a lone integer equal to case_count, 0)
RevOpen ==
    /\ rev_pc = "open"
    /\ ForwardOver
    /\ rev_pos' = rev_pos - 1
    /\ LET line == input[rev_pos]
       IN IF ~ndebug /\ ~(IsSizeLine(line) /\ line.size = 0)
          THEN /\ rev_pc' = "aborted"
               /\ UNCHANGED <<rev_set, rev_total_penalty>>
          ELSE /\ rev_pc' = IF rev_pos - 1 = 0 THEN "write" ELSE "case"
               /\ rev_set' = Solver(rev_set)
               /\ rev_total_penalty' = 0
    /\ UNCHANGED <<waypoints, heap_vars, quad_vars, accrual_vars, stream_vars,
                   rev_times, rev_out>>

\* advance_state() returns has_next: solver.feed(reader.get_next())
RevFeed ==
    /\ rev_pc = "case"
    /\ rev_pos > 0
    /\ ~IsSizeLine(input[rev_pos])
    /\ rev_pos' = rev_pos - 1
    /\ LET visited == input[rev_pos].w
           cost_best == rev_get_best_cost(visited, rev_set)
           new_opt == rev_OptimisedWaypoint(visited, cost_best, visited.penalty)
       IN IF ~ndebug /\ (~rev_is_sane(visited)
                            \/ ~rev_get_best_cost_sane(visited, rev_set))
          THEN /\ rev_pc' = "aborted"
               /\ UNCHANGED <<rev_set, rev_total_penalty>>
          ELSE /\ rev_total_penalty' = rev_total_penalty + visited.penalty
               /\ rev_set' = rev_prune(rev_emplace(rev_set, new_opt))
               /\ rev_pc' = rev_pc
    /\ UNCHANGED <<waypoints, heap_vars, quad_vars, accrual_vars, stream_vars,
                   rev_times, rev_out>>

\* advance_state() returns case_end or err on a lone integer: the inner loop
\* ends, times.push_back(solver.finish()), and the outer loop constructs the
\* next Solver unless the reader is at the beginning of the input.
\* `at` is history: the line that ended the case
RevFinish ==
    /\ rev_pc = "case"
    /\ rev_pos > 0
    /\ IsSizeLine(input[rev_pos])
    /\ rev_pos' = rev_pos - 1
    /\ IF ~ndebug /\ ~rev_get_best_cost_sane(head_waypoint, rev_set)
       THEN /\ rev_pc' = "aborted"
            /\ UNCHANGED <<rev_set, rev_total_penalty, rev_times>>
       ELSE /\ rev_times' = Append(rev_times,
                [at |-> rev_pos,
                 time |-> rev_get_best_cost(head_waypoint, rev_set)
                              + Seconds(rev_total_penalty)])
            /\ rev_set' = Solver(rev_set)
            /\ rev_total_penalty' = 0
            /\ rev_pc' = IF rev_pos - 1 = 0 THEN "write" ELSE "case"
    /\ UNCHANGED <<waypoints, heap_vars, quad_vars, accrual_vars, stream_vars,
                   rev_out>>

\* the output loop of process_streams
RevWrite ==
    /\ rev_pc = "write"
    /\ rev_out' = [k \in DOMAIN rev_times |->
                      [at |-> times_reversed(rev_times)[k].at,
                       time |-> Format(times_reversed(rev_times)[k].time)]]
    /\ rev_pc' = "end"
    /\ UNCHANGED <<waypoints, heap_vars, quad_vars, accrual_vars, stream_vars,
                   rev_pos, rev_set, rev_total_penalty, rev_times>>

\* an input is read; the heap program runs over it, then the backward one
InitStream ==
    /\ ndebug \in BOOLEAN
    /\ input \in Streams
    /\ pos = 0
    /\ out = << >>
    /\ stream_pc = "size"
    /\ waypoints = << >>
    /\ i = 0
    /\ total_penalty = 0
    /\ opt_heap = << >>
    /\ cost_acceptable = cost_t_max
    /\ cost_min_best = head.cost_min
    /\ pc = "idle"
    /\ result = 0
    /\ chosen = << >>
    /\ pruned = {}
    /\ dropped = {}
    /\ rev_pos = Len(input)
    /\ rev_set = << >>
    /\ rev_total_penalty = 0
    /\ rev_times = << >>
    /\ rev_out = << >>
    /\ rev_pc = "open"
    /\ QuadIdle
    /\ AccrualIdle

NextStream ==
    \/ GetCaseSize
    \/ Feed
    \/ Finish
    \/ Emit
    \/ RevOpen
    \/ RevFeed
    \/ RevFinish
    \/ RevWrite

SpecStream == InitStream /\ [][NextStream]_vars

\* ------------------------------------------------------------ path costs

RECURSIVE SumSeq(_)
SumSeq(q) == IF q = << >> THEN 0 ELSE Head(q) + SumSeq(Tail(q))

\* the elements of a set of positions, in increasing order
RECURSIVE Sorted(_)
Sorted(S) ==
    IF S = {} THEN << >>
    ELSE LET m == CHOOSE a \in S : \A b \in S : a <= b
         IN <<m>> \o Sorted(S \ {m})

\* the points of the path that stops at the positions `stops` of ws
PathPoints(ws, stops) ==
    <<head_waypoint>> \o [k \in 1..Len(stops) |-> ws[stops[k]]] \o <<tail_waypoint>>

\* travel time of the path plus the fixed delay of every hop
HopCost(ws, stops) ==
    LET pts == PathPoints(ws, stops)
    IN SumSeq([k \in 1..(Len(pts) - 1) |->
                  Waypoint_time_to(pts[k], pts[k + 1]) + Seconds(delay)])

PenaltyOf(ws, S) == SumSeq([k \in 1..Len(Sorted(S)) |-> ws[Sorted(S)[k]].penalty])

\* cost of a path when the penalties charged are those of the skipped waypoints
PathCostSkipped(ws, stops) ==
    HopCost(ws, stops) + Seconds(PenaltyOf(ws, DOMAIN ws \ Range(stops)))

\* cost of a path when the penalties charged are those of the stops
PathCostStopped(ws, stops) ==
    HopCost(ws, stops) + Seconds(PenaltyOf(ws, Range(stops)))

\* minimum over all subsets of the waypoints, taken in input order
MinOverSubsets(ws) ==
    SetMin({PathCostSkipped(ws, Sorted(S)) : S \in SUBSET DOMAIN ws})

\* ------------------------------------------------------------------ claims

\* the point the next call of get_best_cost is made for: the next waypoint
\* of the case, or the final corner once every waypoint has been consumed
NextVisited ==
    IF i < Len(waypoints) THEN waypoints[i + 1] ELSE tail_waypoint

\* C1: for every in-bounds case the pruned single-pass solver returns the
\* value the quadratic solver returns (for some value the quadratic solver's
\* unassigned best_cost may hold).
C1_PrunedEqualsQuadratic ==
    pc = "done" =>
        \E stale \in Indeterminate : result = solve_quadratic(waypoints, stale)

\* C2: the quadratic solver returns the minimum, over all subsets of the
\* waypoints taken in input order, of travel time plus one delay per hop plus
\* the penalties of the waypoints left out.
C2_QuadraticIsSubsetMinimum ==
    quad_pc = "done" => quad_result = MinOverSubsets(waypoints)

Ats(s) == [k \in DOMAIN s |-> s[k].at]

\* C3: the negative-accrual and the positive-accrual solver hold the same
\* waypoints in the same order after the same number of steps, and return
\* exactly the same value.
C3_AccrualAgree ==
    /\ (pos_visited = neg_visited => Ats(pos_set) = Ats(neg_set))
    /\ (pos_pc = "done" /\ neg_pc = "done" => pos_result = neg_result)

\* C3 witness: both solvers have returned on a case with penalties, and
\* pruning has removed a candidate from the sets.
C3_Witness ==
    /\ pos_pc = "done" /\ neg_pc = "done"
    /\ neg_total_penalty > 0
    /\ Len(waypoints) >= 2
    /\ Len(neg_set) < Len(waypoints) + 1
    /\ Len(pos_set) = Len(neg_set)

\* C4 (as stated): the value returned is the chosen path's travel time plus
\* its delays plus the penalties of exactly the waypoints the path stops at.
C4_ResultChargesStops ==
    pc = "done" => result = PathCostStopped(waypoints, chosen)

\* C4 (amended): the value returned is the chosen path's travel time plus one
\* delay per hop plus the penalties of exactly the waypoints the path skips.
C4_ResultChargesSkipped ==
    pc = "done" => result = PathCostSkipped(waypoints, chosen)

\* C4 witness: a returned path that stops at some waypoints and skips others.
C4_Witness ==
    /\ pc = "done"
    /\ chosen # << >>
    /\ Len(chosen) < Len(waypoints)
    /\ PenaltyOf(waypoints, Range(chosen)) > 0
    /\ PenaltyOf(waypoints, DOMAIN waypoints \ Range(chosen)) > 0

\* C5 (as stated): the single waypoint (50,50) with penalty 0 yields 70.711.
C5_ScenarioYields70711 ==
    (pc = "done" /\ waypoints = <<ScenarioWaypoint>>) => Format(result) = 70711

\* C5 (amended): the single waypoint (50,50) with penalty 0 yields 80.711: the
\* skip path costs the corner-to-corner travel time plus the delay of its one
\* hop, and beats the visiting path's 90.711.
C5_ScenarioYields80711 ==
    (pc = "done" /\ waypoints = <<ScenarioWaypoint>>) =>
        /\ Format(result) = 80711
        /\ chosen = << >>
        /\ Format(PathCostSkipped(waypoints, << >>)) = 80711
        /\ Format(PathCostSkipped(waypoints, <<1>>)) = 90711

\* C5 witness: the scenario's case has been solved.
C5_Witness == pc = "done" /\ waypoints = <<ScenarioWaypoint>>

\* C6: the cost_min of every candidate is at most its cost for any in-bounds
\* point.
C6_CostMinIsLowerBound ==
    \A k \in DOMAIN opt_heap : \A v \in ProbePoints :
        opt_heap[k].cost_min <= cost_to(opt_heap[k], v)

\* C7: the cost of every candidate for any in-bounds point is at most its
\* cost_max.
C7_CostMaxIsUpperBound ==
    \A k \in DOMAIN opt_heap : \A v \in ProbePoints :
        cost_to(opt_heap[k], v) <= cost_max(opt_heap[k])

\* C7 witness: a candidate made from a fed waypoint is in the heap, and some
\* in-bounds point attains its cost_max.
C7_Witness ==
    \E k \in DOMAIN opt_heap : \E v \in ProbePoints :
        /\ opt_heap[k].stops # << >>
        /\ cost_to(opt_heap[k], v) = cost_max(opt_heap[k])

\* C8: for every candidate prune has removed, and for the point of every
\* later call of get_best_cost, some candidate in the heap costs no more.
C8_PrunedNeverBeats ==
    pc = "loop" =>
        \A b \in pruned : \E k \in DOMAIN opt_heap :
            cost_to(opt_heap[k], NextVisited) <= cost_to(b, NextVisited)

\* C9: for every candidate dropped without insertion, and for the point of
\* every later call of get_best_cost, some candidate in the heap costs no more.
C9_DroppedNeverBeats ==
    pc = "loop" =>
        \A b \in dropped : \E k \in DOMAIN opt_heap :
            cost_to(opt_heap[k], NextVisited) <= cost_to(b, NextVisited)

\* C10: at every call of get_best_cost the heap holds a candidate, so the
\* cost it returns is below the initial maximum and its assertion holds.
C10_HeapNeverEmpty ==
    /\ pc # "aborted"
    /\ pc = "loop" =>
          /\ opt_heap # << >>
          /\ get_best_cost(NextVisited, opt_heap) < cost_t_max

\* C10 witness: prune removed every candidate the heap held, the initial one
\* included, and the heap holds the newly inserted one alone.
C10_Witness ==
    /\ pc = "loop"
    /\ Len(opt_heap) = 1
    /\ head \in pruned
    /\ Cardinality(pruned) >= 2

\* the candidate the next iteration of the loop of solve builds
NextCandidate ==
    LET visited == NextVisited
        cost_best == get_best_cost(visited, opt_heap)
    IN OptimisedWaypoint(visited, cost_best,
           Append(opt_heap[best_from(visited, opt_heap)].stops, i + 1))

\* the next iteration of the loop of solve calls prune
PruneDue ==
    /\ pc = "loop"
    /\ i < Len(waypoints)
    /\ cost_acceptable >= NextCandidate.cost_min
    /\ cost_min_best >= NextCandidate.cost_min

\* the candidates of lowest cost_min of a heap
Lowest(h) == {c \in Range(h) : \A o \in Range(h) : c.cost_min <= o.cost_min}

FirstZero(inp) ==
    CHOOSE k \in DOMAIN inp :
        /\ inp[k].size = 0
        /\ \A j \in 1..(k - 1) : inp[j].size # 0

\* the input ends with its terminating line
Terminated(inp) == FirstZero(inp) = Len(inp)

\* the lines that hold the sizes of the cases of the input
CaseStarts(inp) == {k \in 1..(FirstZero(inp) - 1) : IsSizeLine(inp[k])}

\* the waypoints of the case whose size is on line k
CaseAt(inp, k) == [j \in 1..inp[k].size |-> inp[k + j].w]

\* every waypoint of the input lies in the square
AllSane(inp) == \A k \in DOMAIN inp : IsSizeLine(inp[k]) \/ rev_is_sane(inp[k].w)

\* two points of the path (0,0), ws, (100,100) have identical coordinates
Coincident(ws) ==
    \E j, k \in DOMAIN Vec(ws) :
        j < k /\ Vec(ws)[j].x = Vec(ws)[k].x /\ Vec(ws)[j].y = Vec(ws)[k].y

\* solve of the heap program on one case by itself, without assertions:
\* the loop of solve as a fold over the waypoints
solve_start ==
    [total_penalty |-> 0, opt_heap |-> <<head>>,
     cost_acceptable |-> cost_t_max, cost_min_best |-> head.cost_min]

solve_visit(st, visited) ==
    LET cost_best == get_best_cost(visited, st.opt_heap)
        new_opt == OptimisedWaypoint(visited, cost_best, << >>)
        counted == [st EXCEPT !.total_penalty = @ + visited.penalty]
    IN IF st.cost_acceptable >= new_opt.cost_min
       THEN IF lowers_cost_min_best(st.cost_min_best, new_opt)
            THEN [counted EXCEPT
                    !.cost_min_best = new_opt.cost_min,
                    !.cost_acceptable = cost_max(new_opt),
                    !.opt_heap = emplace(prune(st.opt_heap, cost_max(new_opt)),
                                         new_opt)]
            ELSE [counted EXCEPT !.opt_heap = emplace(st.opt_heap, new_opt)]
       ELSE counted

RECURSIVE solve_loop(_, _)
solve_loop(st, ws) ==
    IF ws = << >> THEN st ELSE solve_loop(solve_visit(st, Head(ws)), Tail(ws))

solve_alone(ws) ==
    LET st == solve_loop(solve_start, ws)
    IN total_cost(get_best_cost(tail_waypoint, st.opt_heap), st.total_penalty)

\* Solver of the backward program on one case by itself, without assertions:
\* feed for every waypoint from the last to the first, then finish
rev_feed(st, visited) ==
    LET cost_best == rev_get_best_cost(visited, st.set)
        new_opt == rev_OptimisedWaypoint(visited, cost_best, visited.penalty)
    IN [set |-> rev_prune(rev_emplace(st.set, new_opt)),
        total_penalty |-> st.total_penalty + visited.penalty]

RECURSIVE rev_feed_all(_, _)
rev_feed_all(st, ws) ==
    IF ws = << >> THEN st
    ELSE rev_feed_all(rev_feed(st, ws[Len(ws)]), SubSeq(ws, 1, Len(ws) - 1))

rev_solve_alone(ws) ==
    LET st == rev_feed_all([set |-> <<rev_tail>>, total_penalty |-> 0], ws)
    IN rev_get_best_cost(head_waypoint, st.set) + Seconds(st.total_penalty)

\* C12: on an input that ends with its terminating line, whose waypoints all
\* lie in the square and in which two points of a path have identical
\* coordinates, no assertion fails in either program and every case that has
\* been solved has a finite result.
C12_CoincidentCompletes ==
    (/\ Terminated(input)
     /\ AllSane(input)
     /\ \E k \in CaseStarts(input) : Coincident(CaseAt(input, k)))
    => /\ pc # "aborted"
       /\ rev_pc # "aborted"
       /\ (pc = "done" => result < cost_t_max)
       /\ \A k \in DOMAIN rev_times : rev_times[k].time < cost_t_max

\* C13: when a fed waypoint lies outside the square the computation aborts at
\* that waypoint: no candidate is made from it, and no result is emitted for
\* the case it belongs to.
C13_OutOfBoundsAborts ==
    /\ \A k \in DOMAIN opt_heap : is_sane(opt_heap[k].waypoint)
    /\ \A k \in DOMAIN rev_set : rev_is_sane(rev_set[k].waypoint)
    /\ \A k \in DOMAIN out :
          \A j \in 1..input[out[k].at].size : is_sane(input[out[k].at + j].w)
    /\ \A k \in DOMAIN rev_out :
          \A j \in 1..input[rev_out[k].at].size :
              rev_is_sane(input[rev_out[k].at + j].w)

\* C14: each program writes one result per case, in the order of the cases
\* in the input: the results written so far are those of the first cases,
\* and all of them once the program has ended (for the backward program, on
\* an input that ends with its terminating line).
C14_ResultsInInputOrder ==
    /\ Ats(out) = SubSeq(Sorted(CaseStarts(input)), 1, Len(out))
    /\ (stream_pc = "end" => Ats(out) = Sorted(CaseStarts(input)))
    /\ (rev_pc = "end" /\ Terminated(input)
           => Ats(rev_out) = Sorted(CaseStarts(input)))

\* C14 witness: both programs have ended on an input of two cases with
\* different results, each having written two results.
C14_Witness ==
    /\ stream_pc = "end"
    /\ rev_pc = "end"
    /\ Terminated(input)
    /\ Len(out) = 2
    /\ Len(rev_out) = 2
    /\ out[1].time # out[2].time
    /\ rev_out[1].time # rev_out[2].time

\* C15: once a case size of 0 has been read, processing stops: no result is
\* written for it or for anything after it, and no line after it is read.
C15_ZeroEndsProcessing ==
    /\ pos <= FirstZero(input)
    /\ \A k \in DOMAIN out : out[k].at < FirstZero(input)
    /\ (rev_pos < Len(input) => Terminated(input))
    /\ \A k \in DOMAIN rev_times : rev_times[k].at < FirstZero(input)
    /\ \A k \in DOMAIN rev_out : rev_out[k].at < FirstZero(input)

\* C16: the result written for a case is the result of solving that case by
\* itself, whatever cases precede or follow it in the input.
C16_CasesIndependent ==
    /\ \A k \in DOMAIN out :
          out[k].time = Format(solve_alone(CaseAt(input, out[k].at)))
    /\ (Terminated(input) =>
          \A k \in DOMAIN rev_times :
              rev_times[k].time = rev_solve_alone(CaseAt(input, rev_times[k].at)))

\* C16 witness: a second case has been solved after a first case that had
\* penalties and pruned its set, by both programs.
C16_Witness ==
    /\ Terminated(input)
    /\ Len(out) = 2
    /\ Len(rev_times) = 2
    /\ input[2].w.penalty > 0
    /\ CaseAt(input, out[1].at) # CaseAt(input, out[2].at)
    /\ out[1].time # out[2].time

\* ------------------------------------------------- claims on the bounds

\* C17: the value solve returns is not negative, although candidates of
\* negative invariant cost are stored during the pass.
C17_ResultNonNegative == pc = "done" => result >= 0

\* C17 witness: solve has returned while its heap holds a candidate of
\* negative invariant cost and negative cost_min.
C17_Witness ==
    /\ pc = "done"
    /\ \E k \in DOMAIN opt_heap :
          opt_heap[k].cost_invariant < 0 /\ opt_heap[k].cost_min < 0

\* the waypoints of a case and the two corners are pairwise distinct points
Distinct(ws) == ~Coincident(ws)

\* the best cost of every position of the vector, by the quadratic solve
quad_best_cost(ws) ==
    quad_pass(Vec(ws), [k \in 1..(Len(ws) + 2) |-> 0], Len(ws) + 1)

\* what a candidate at position k costs a visited position v < k: the hop,
\* the candidate's best cost bc[k], the delay and the penalties skipped between
FullCost(vec, bc, v, k) ==
    Waypoint_time_to(vec[v], vec[k]) + bc[k] + Seconds(delay)
        + Seconds(SumSeq([j \in 1..(k - v - 1) |-> vec[v + j].penalty]))

\* no position after `visited` that is missing from the set costs a position
\* up to `visited` strictly less than every position the set holds
PrunedNeverCheaper(ws, visited, ats) ==
    LET vec == Vec(ws)
        bc == quad_best_cost(ws)
    IN \A k \in ((visited + 1)..(Len(ws) + 2)) \ ats :
           \A v \in 1..visited :
               \E c \in ats : FullCost(vec, bc, v, c) <= FullCost(vec, bc, v, k)

C19_ThresholdOfLowest ==
    [][(pc = "loop" /\ pc' = "loop" /\ PruneDue) =>
          /\ NextCandidate \in Lowest(Append(opt_heap, NextCandidate))
          /\ cost_acceptable' = cost_max(NextCandidate)
          /\ Range(opt_heap) \ Range(opt_heap') =
                {c \in Range(opt_heap) : c.cost_min > cost_max(NextCandidate)}
          /\ pruned' = pruned \cup (Range(opt_heap) \ Range(opt_heap'))]_vars

\* C19 witness: a step has pruned some candidates of the heap and kept others.
C19_Witness ==
    /\ pc = "loop"
    /\ pruned # {}
    /\ Len(opt_heap) >= 2
    /\ cost_acceptable = cost_max(opt_heap[Len(opt_heap)])
    /\ \E c \in pruned : c.cost_min > cost_acceptable

\* every waypoint of the case being solved lies in the square
CaseSane == \A k \in DOMAIN waypoints : is_sane(waypoints[k])

LowestCostMin(h) == SetMin({h[k].cost_min : k \in DOMAIN h})

\* C21: at every point of a case the lowest cost_min among the candidates of
\* the heap is at most the cost_min of every candidate prune has removed
\* earlier in the case.
C21_LowestBelowPruned ==
    pc \in {"loop", "done"} =>
        \A c \in pruned :
            opt_heap # << >> /\ LowestCostMin(opt_heap) <= c.cost_min

\* C21 witness: two prunes have removed candidates of different cost_min and
\* the heap holds several candidates.
C21_Witness ==
    /\ pc = "loop"
    /\ Len(opt_heap) >= 2
    /\ \E a, b \in pruned : a.cost_min < b.cost_min
    /\ \E c \in pruned : LowestCostMin(opt_heap) < c.cost_min

\* the fed waypoint a candidate was made from (0 for the head)
Origin(c) == IF c.stops = << >> THEN 0 ELSE c.stops[Len(c.stops)]

\* C22: after every step of solve no two candidates of the heap come from
\* the same waypoint, every candidate of the heap is either a candidate the
\* heap held before the step, unchanged, or the one made from the waypoint
\* just fed, and no candidate of the heap comes from a waypoint whose
\* candidate has been pruned or dropped.
C22_InsertedOnceNeverMutated ==
    [][(pc = "loop" /\ i' = i + 1) =>
          /\ \A j, k \in DOMAIN opt_heap' :
                j # k => Origin(opt_heap'[j]) # Origin(opt_heap'[k])
          /\ \A k \in DOMAIN opt_heap' :
                \/ opt_heap'[k] \in Range(opt_heap)
                \/ opt_heap'[k] = NextCandidate /\ Origin(opt_heap'[k]) = i'
          /\ \A c \in pruned' \cup dropped' :
                \A k \in DOMAIN opt_heap' : Origin(opt_heap'[k]) # Origin(c)]_vars

\* C22 witness: a candidate has been pruned, another dropped on arrival, and
\* the heap holds a candidate made from a waypoint.
C22_Witness ==
    /\ pc = "loop"
    /\ pruned # {}
    /\ dropped # {}
    /\ \E k \in DOMAIN opt_heap : Origin(opt_heap[k]) > 0

\* ------------------------------------------- claims on the quadratic solver

\* the inner loop of set_best_cost when it is never left early: every skipto
\* up to the terminus is scanned
RECURSIVE scan_all(_, _, _, _, _, _)
scan_all(vec, bc, v, skipto, best, penalties) ==
    IF skipto > Len(vec) THEN best
    ELSE LET time == Waypoint_time_to(vec[v], vec[skipto])
             cost == time + penalties + bc[skipto]
             best2 == IF best > cost THEN cost ELSE best
         IN scan_all(vec, bc, v, skipto + 1, best2,
                     penalties + Seconds(vec[skipto].penalty))

\* the inner loop of the set_best_cost that leaves when
\* best_cost <= min_next_cost, with min_next_cost = penalties
RECURSIVE skip_loop_le(_, _, _, _, _, _)
skip_loop_le(vec, bc, v, skipto, best, penalties) ==
    IF skipto > Len(vec) THEN best
    ELSE LET time == Waypoint_time_to(vec[v], vec[skipto])
             cost == time + penalties + bc[skipto]
             best2 == IF best > cost THEN cost ELSE best
             penalties2 == penalties + Seconds(vec[skipto].penalty)
         IN IF best2 <= penalties2 THEN best2
            ELSE skip_loop_le(vec, bc, v, skipto + 1, best2, penalties2)

\* the skipto at which the inner loop of set_best_cost is left
\* (Len(vec) + 1 when it runs to the end)
RECURSIVE skip_exit(_, _, _, _, _, _)
skip_exit(vec, bc, v, skipto, best, penalties) ==
    IF skipto > Len(vec) THEN skipto
    ELSE LET time == Waypoint_time_to(vec[v], vec[skipto])
             cost == time + penalties + bc[skipto]
             best2 == IF best > cost THEN cost ELSE best
             penalties2 == penalties + Seconds(vec[skipto].penalty)
         IN IF never_better(penalties2, best2) THEN skipto
            ELSE skip_exit(vec, bc, v, skipto + 1, best2, penalties2)

\* C23: the best cost the last visited waypoint has been given by set_best_cost,
\* which leaves its loop once the penalty sum exceeds the best cost so far,
\* is the best cost a scan of every skipto up to the terminus gives; so is
\* that of the variant that leaves once the best cost is at most the sum.
C23_EarlyExitSameBestCost ==
    quad_pc \in {"loop", "done"} =>
        \A v \in {quad_visited + 1} \cap (1..(Len(waypoints) + 1)) :
            LET vec == Vec(waypoints)
                all == scan_all(vec, best_cost, v, v + 1, cost_t_max,
                                Seconds(delay))
            IN /\ best_cost[v] = all
               /\ skip_loop_le(vec, best_cost, v, v + 1, cost_t_max,
                               Seconds(delay)) = all

\* C23 witness: the solve has returned, and for the first position the loop
\* was left at least two skipto before the terminus.
C23_Witness ==
    /\ quad_pc = "done"
    /\ Len(waypoints) = 3
    /\ skip_exit(Vec(waypoints), best_cost, 1, 2, cost_t_max, Seconds(delay))
          < Len(waypoints) + 1

\* ------------------------------------------------- claims on the heap order

\* the first element of a heap has the highest cost_min of all its elements
MaxFirst(h) == \A k \in DOMAIN h : h[k].cost_min <= h[1].cost_min

\* a heap after n pops: std::pop_heap followed by pop_back, n times
RECURSIVE PopN(_, _)
PopN(h, n) == IF n = 0 THEN h ELSE PopN(pop_back(pop_heap(h)), n - 1)

\* C24: the first element of opt_heap has the highest cost_min after every
\* push and after every pop, and when prune is due, what it returns has no
\* element whose cost_min exceeds the threshold.
C24_HeapOrderBoundsPrune ==
    pc \in {"loop", "done"} =>
        /\ MaxFirst(opt_heap)
        /\ \A n \in 1..Len(opt_heap) : MaxFirst(PopN(opt_heap, n))
        /\ (PruneDue =>
               \A c \in Range(prune(opt_heap, cost_max(NextCandidate))) :
                   c.cost_min <= cost_max(NextCandidate))

\* C24 witness: a heap of three candidates whose last element has a higher
\* cost_min than its second, reached after a prune that removed a candidate.
C24_Witness ==
    /\ pc = "loop"
    /\ Len(opt_heap) = 3
    /\ opt_heap[2].cost_min < opt_heap[3].cost_min
    /\ pruned # {}

\* ------------------------------------------- claims on the pass direction

\* the backward solve over a vector (main.cpp, third program): Waypoint's
\* time_min is the time to the nearest corner, without a lower limit
back_time_min(w) == time_to(Min2(w.x, 100 - w.x), Min2(w.y, 100 - w.y))

back_OptimisedWaypoint(waypoint, cost_best, penalty) ==
    LET invariant_cost == cost_best - Seconds(penalty) + Seconds(delay)
    IN [waypoint |-> waypoint,
        invariant_cost |-> invariant_cost,
        cost_min |-> back_time_min(waypoint) + invariant_cost]

\* one iteration of the loop of solve before the front of the vector
back_visit(st, visited) ==
    LET cost_best == rev_get_best_cost(visited, st.set)
        new_opt == back_OptimisedWaypoint(visited, cost_best, visited.penalty)
    IN [set |-> rev_prune(rev_emplace(st.set, new_opt)),
        total_penalty |-> st.total_penalty + visited.penalty]

RECURSIVE back_loop(_, _)
back_loop(st, ws) ==
    IF ws = << >> THEN st
    ELSE back_loop(back_visit(st, ws[Len(ws)]), SubSeq(ws, 1, Len(ws) - 1))

\* solve(waypoints): the terminus is the first candidate, the waypoints are
\* visited from the last to the first, the origin is the final visited point
back_solve(ws) ==
    LET st == back_loop([set |-> <<back_OptimisedWaypoint(tail_waypoint, 0, 0)>>,
                         total_penalty |-> 0], ws)
    IN rev_get_best_cost(head_waypoint, st.set) + Seconds(st.total_penalty)

\* C25: the forward pass and the backward pass return the same result for
\* every sequence of waypoints.
C25_ForwardEqualsBackward ==
    pc = "done" => result = back_solve(waypoints)

\* C26: the value the pruned solver returns is the cost of the path over the
\* stops it chose, and is not smaller than the value the quadratic solver
\* returns on the same case, whatever its unassigned best_cost holds.
C26_PrunedNotBelowQuadratic ==
    pc = "done" =>
        /\ result = PathCostSkipped(waypoints, chosen)
        /\ \A stale \in Indeterminate :
               result >= solve_quadratic(waypoints, stale)

\* C27: after every processed waypoint cost_min_best is the lowest cost_min
\* among the candidates of opt_heap.
C27_BestIsLowestInHeap ==
    pc \in {"loop", "done"} =>
        opt_heap # << >> /\ cost_min_best = LowestCostMin(opt_heap)

\* C27 witness: after a prune and a later insertion without a prune, the
\* heap holds several candidates and cost_min_best is below the head's.
C27_Witness ==
    /\ pc = "loop"
    /\ i >= 2
    /\ Len(opt_heap) >= 2
    /\ pruned # {}
    /\ cost_min_best < head.cost_min
    /\ opt_heap[1].cost_min > cost_min_best

\* -------------------------------------------- claims on the set's bounds

\* the set of the backward solve after the last k waypoints of a case
back_set(ws, k) ==
    back_loop([set |-> <<back_OptimisedWaypoint(tail_waypoint, 0, 0)>>,
               total_penalty |-> 0],
              SubSeq(ws, Len(ws) - k + 1, Len(ws))).set

FedBackward(inp, p) ==
    {k \in (p + 1)..(Len(inp) - 1) : \A j \in (p + 1)..k : ~IsSizeLine(inp[j])}

\* C29: after k waypoints of a case have been fed, total_penalty is the sum
\* of the penalties of those k waypoints, in the forward program and in the
\* backward program, whatever became of their candidates.
C29_TotalPenaltyIsSum ==
    /\ (stream_pc = "solve" /\ pc \in {"loop", "done"}) =>
          total_penalty = SumSeq([k \in 1..i |-> waypoints[k].penalty])
    /\ rev_pc = "case" =>
          rev_total_penalty =
              SumSeq([k \in 1..Cardinality(FedBackward(input, rev_pos))
                         |-> input[rev_pos + k].w.penalty])

\* C29 witness: in the second case of an input, two waypoints have been fed
\* and a candidate has been pruned.
C29_Witness ==
    /\ stream_pc = "solve"
    /\ pc = "loop"
    /\ Len(out) = 1
    /\ i = 2
    /\ pruned # {}
    /\ total_penalty = waypoints[1].penalty + waypoints[2].penalty
    /\ total_penalty > 0

\* ---------------------------------------- claims on the multiset prune loop

\* the loop of prune, iteration by iteration: `erased` counts the elements
\* erased, `empty_prev` tells that std::prev(cend()) was taken on an empty set
RECURSIVE prune_steps(_, _, _, _)
prune_steps(s, keys, to_exceed, erased) ==
    IF s = << >> THEN [set |-> s, erased |-> erased, empty_prev |-> TRUE]
    ELSE IF keys[Len(s)] > to_exceed
         THEN prune_steps(SubSeq(s, 1, Len(s) - 1), keys, to_exceed, erased + 1)
         ELSE [set |-> s, erased |-> erased, empty_prev |-> FALSE]

\* the set the next iteration of the negative-accrual solve calls prune on
NegArgument ==
    LET vec == Vec(waypoints)
        cost == neg_get_best_cost(vec, neg_visited, neg_set)
        new_opt == [at |-> neg_visited, best_cost |-> cost,
                    accrued_penalty |-> Seconds(vec[neg_visited].penalty)]
    IN neg_emplace(neg_set, new_opt)

\* the set the next iteration of the positive-accrual solve calls prune on
PosArgument ==
    LET vec == Vec(waypoints)
        cost == pos_get_best_cost(vec, pos_visited, pos_set)
        on == pos_rebuild(pos_set, << >>, vec[pos_visited].penalty)
        new_opt == [at |-> pos_visited, best_cost |-> cost, accrued_penalty |-> 0]
    IN pos_emplace(on, new_opt)

\* the two multiset solvers run independently of each other: each state of
\* one is reached while the other has not left the last element of the vector
OtherAtStart(visited) == visited = Len(waypoints) + 1

\* C30: every call of prune in the multiset solvers is on a non-empty set;
\* its loop ends after erasing fewer elements than the set holds, without
\* taking the predecessor of end() on an empty set, and the set it leaves
\* starts with the element of lowest invariant cost of the set it was given.
C30_PruneLoopLeavesLowest ==
    /\ (neg_pc = "loop" /\ neg_visited > 1 /\ OtherAtStart(pos_visited)) =>
          LET s == NegArgument
              run == prune_steps(s, neg_keys(s),
                         neg_invariant_cost(s[1]) + fixed_time_max
                             - fixed_time_min, 0)
          IN /\ s # << >>
             /\ ~run.empty_prev
             /\ run.erased < Len(s)
             /\ neg_prune(s) = run.set
             /\ neg_prune(s) # << >>
             /\ neg_prune(s)[1] = s[1]
             /\ \A k \in DOMAIN s :
                   neg_invariant_cost(s[1]) <= neg_invariant_cost(s[k])
    /\ (pos_pc = "loop" /\ pos_visited > 1 /\ OtherAtStart(neg_visited)) =>
          LET s == PosArgument
              run == prune_steps(s, pos_keys(s),
                         pos_invariant_cost(s[1]) + fixed_time_max
                             - fixed_time_min, 0)
          IN /\ s # << >>
             /\ ~run.empty_prev
             /\ run.erased < Len(s)
             /\ pos_prune(s) = run.set
             /\ pos_prune(s) # << >>
             /\ pos_prune(s)[1] = s[1]
             /\ \A k \in DOMAIN s :
                   pos_invariant_cost(s[1]) <= pos_invariant_cost(s[k])

\* C30 witness: the loop has erased an element of the set and left two or
\* more.
C30_Witness ==
    /\ neg_pc = "loop"
    /\ Len(neg_set) >= 2
    /\ Len(neg_set) < Len(waypoints) + 2 - neg_visited

====
